---- MODULE Spec2Model ----
(***************************************************************************)
(* Connect-four with bomb ("B") and teleport ("T") pieces:                 *)
(* a model of src/connect_four.py.                                         *)
(*                                                                         *)
(* Rows are numbered from 0 at the top to rows-1 at the bottom and columns *)
(* from 0 at the left, as in Board.grid; the columns a player names are    *)
(* 1-based.  An empty cell holds " ".  All pieces of one symbol are        *)
(* interchangeable (Player.choose_piece takes the first one whose symbol   *)
(* matches), so an inventory is the number of pieces held per symbol.      *)
(***************************************************************************)
EXTENDS Integers, Sequences, FiniteSets, TLC

\* Largest number of pieces the players take from their inventories after
\* the opening of a game.
MaxTurns == 2

\* The largest number of pieces on a board handed to the wrapper or to the
\* win detections on their own.
MaxPieces == 4

EMPTY == " "
\* Python's None, where a symbol may stand.
NONE == "None"
BOMB == "B"
TELEPORT == "T"
Symbols == {"X", "O", BOMB, TELEPORT}

VARIABLES
    board,           \* Game.board: [rows, columns, grid]
    players,         \* Game.players: player id -> [symbol, pieces]
    current_player,  \* Game.current_player, as a player id
    playing,         \* the local flag of Game.begin
    outcome,         \* what Game.begin announced: "InProgress", "Win", "Draw"
    winner,          \* the player whose name was printed with "wins!", or 0
    last,            \* what the latest iteration of the turn loop did
    turns,           \* pieces taken from the inventories since the opening
    wrapper          \* where control is in the loops of gravity_decorator.wrapper

vars == <<board, players, current_player, playing, outcome, winner, last,
          turns, wrapper>>

----------------------------------------------------------------------------
\* Board.__init__: a rows x columns grid of blanks.
NewBoard(r, c) ==
    [rows |-> r, columns |-> c,
     grid |-> [row \in 0..(r - 1) |-> [col \in 0..(c - 1) |-> EMPTY]]]

\* board.grid[row][column] = value
SetCell(b, row, col, value) ==
    [b EXCEPT !.grid[row][col] = value]

\* Python's list indexing: a negative index counts from the end.
PyIndex(i, n) == IF i < 0 THEN i + n ELSE i

\* for row in range(board.rows - 1, -1, -1): first row whose cell in col
\* equals value, or -1 when the loop ends without finding one.
RECURSIVE ScanUp(_, _, _, _)
ScanUp(b, col, value, row) ==
    IF row < 0 THEN -1
    ELSE IF b.grid[row][col] = value THEN row
    ELSE ScanUp(b, col, value, row - 1)

\* for row in range(board.rows): first row from the top whose cell in col
\* equals value, or -1.
RECURSIVE ScanDown(_, _, _, _)
ScanDown(b, col, value, row) ==
    IF row >= b.rows THEN -1
    ELSE IF b.grid[row][col] = value THEN row
    ELSE ScanDown(b, col, value, row + 1)

\* PieceInsert testing the 1-based column against the 0-based range.
PieceInsertOneBased(sym, b, column) ==
    IF ~(0 <= column - 2 /\ column - 1 < b.columns)
    THEN [ok |-> FALSE, board |-> b]
    ELSE LET row == ScanUp(b, column - 1, EMPTY, b.rows - 1) IN
         IF row = -1
         THEN [ok |-> FALSE, board |-> b]
         ELSE [ok |-> TRUE, board |-> SetCell(b, row, column - 1, sym)]

\* Piece.insert: the piece goes to the lowest blank cell of the column.
PieceInsert(sym, b, column) ==
    LET column_i0 == column - 1 IN
    IF ~(0 <= column_i0 /\ column_i0 < b.columns)
    THEN [ok |-> FALSE, board |-> b]
    ELSE LET row == ScanUp(b, column_i0, EMPTY, b.rows - 1) IN
         IF row = -1
         THEN [ok |-> FALSE, board |-> b]
         ELSE [ok |-> TRUE, board |-> SetCell(b, row, column_i0, sym)]

\* Sweep that never sets moved.
RECURSIVE SweepForgetsMoved(_, _, _)
SweepForgetsMoved(b, k, moved) ==
    IF k >= b.columns * (b.rows - 1)
    THEN [board |-> b, moved |-> FALSE]
    ELSE LET col == k \div (b.rows - 1)
             row == (b.rows - 2) - (k % (b.rows - 1))
         IN IF b.grid[row][col] # EMPTY /\ b.grid[row + 1][col] = EMPTY
            THEN SweepForgetsMoved(
                     SetCell(SetCell(b, row + 1, col, b.grid[row][col]),
                             row, col, EMPTY),
                     k + 1, moved)
            ELSE SweepForgetsMoved(b, k + 1, moved)

\* One pass of the two nested for loops of gravity_decorator.wrapper; k runs
\* over the cells in the order the loops visit them (column by column, in a
\* column from row rows-2 up to row 0).
RECURSIVE Sweep(_, _, _)
Sweep(b, k, moved) ==
    IF k >= b.columns * (b.rows - 1)
    THEN [board |-> b, moved |-> moved]
    ELSE LET col == k \div (b.rows - 1)
             row == (b.rows - 2) - (k % (b.rows - 1))
         IN IF b.grid[row][col] # EMPTY /\ b.grid[row + 1][col] = EMPTY
            THEN Sweep(SetCell(SetCell(b, row + 1, col, b.grid[row][col]),
                               row, col, EMPTY),
                       k + 1, TRUE)
            ELSE Sweep(b, k + 1, moved)

\* Gravity with a single pass of the loops.
GravityOnePass(b) == Sweep(b, 0, FALSE).board

\* while moved == True: ... of gravity_decorator.wrapper.
RECURSIVE Gravity(_)
Gravity(b) ==
    LET s == Sweep(b, 0, FALSE) IN
    IF s.moved THEN Gravity(s.board) ELSE s.board

\* gravity_decorator.wrapper: the undecorated insert, then gravity whether or
\* not the insert succeeded.
GravityDecorator(insertion) ==
    [ok |-> insertion.ok, board |-> Gravity(insertion.board)]

\* ClearRadius with range(-1, 1) for both offsets.
RECURSIVE ClearRadiusShort(_, _, _, _)
ClearRadiusShort(b, inserted_row, column_i0, k) ==
    IF k >= 9 THEN b
    ELSE LET row_offset == (k \div 3) - 1
             column_offset == (k % 3) - 1
             target_row == inserted_row + row_offset
             target_column == column_i0 + column_offset
         IN IF /\ row_offset < 1 /\ column_offset < 1
               /\ 0 <= target_row /\ target_row < b.rows
               /\ 0 <= target_column /\ target_column < b.columns
            THEN ClearRadiusShort(SetCell(b, target_row, target_column, EMPTY),
                                  inserted_row, column_i0, k + 1)
            ELSE ClearRadiusShort(b, inserted_row, column_i0, k + 1)

\* The clearing loops of BombPiece.insert: k runs over the nine offsets,
\* row offset (k \div 3) - 1, column offset (k % 3) - 1.
RECURSIVE ClearRadius(_, _, _, _)
ClearRadius(b, inserted_row, column_i0, k) ==
    IF k >= 9 THEN b
    ELSE LET target_row == inserted_row + ((k \div 3) - 1)
             target_column == column_i0 + ((k % 3) - 1)
         IN IF /\ 0 <= target_row /\ target_row < b.rows
               /\ 0 <= target_column /\ target_column < b.columns
            THEN ClearRadius(SetCell(b, target_row, target_column, EMPTY),
                             inserted_row, column_i0, k + 1)
            ELSE ClearRadius(b, inserted_row, column_i0, k + 1)

\* BombPiece.insert without its decorator.
BombInsertRaw(b, column) ==
    LET inserted == PieceInsert(BOMB, b, column) IN
    IF ~inserted.ok THEN [ok |-> FALSE, board |-> inserted.board]
    ELSE LET column_i0 == column - 1
             inserted_row == ScanUp(inserted.board, column_i0, BOMB, b.rows - 1)
         IN [ok |-> TRUE,
             board |-> ClearRadius(inserted.board, inserted_row, column_i0, 0)]

\* Mirror with the centre taken as n / 2.
MirrorAboutHalf(n, i) == n - i

\* The mirrored position of TeleportPiece.insert:
\* int(2 * ((n - 1) / 2) - i) is n - 1 - i.
Mirror(n, i) == (n - 1) - i

\* RemoveTeleport leaving the "T" where it landed.
RemoveTeleportForgotten(b, row, col) == b

\* TeleportPiece.insert, "Remove the T".
RemoveTeleport(b, row, col) == SetCell(b, row, col, EMPTY)

\* TakeMirrored leaving the piece at the mirrored position.
TakeMirroredKept(b, row, col) == b

\* TeleportPiece.insert: the piece at the mirrored position leaves its cell.
TakeMirrored(b, row, col) == SetCell(b, row, col, EMPTY)

\* TeleportPiece.insert without its decorator.
TeleportInsertRaw(b, column) ==
    LET inserted == PieceInsert(TELEPORT, b, column) IN
    IF ~inserted.ok
    THEN [ok |-> FALSE, board |-> inserted.board, symbol_to_teleport |-> NONE]
    ELSE LET column_i0 == column - 1
             inserted_row == ScanUp(inserted.board, column_i0, TELEPORT,
                                    b.rows - 1)
             removed == RemoveTeleport(inserted.board, inserted_row, column_i0)
             mirrored_row == Mirror(b.rows, inserted_row)
             mirrored_column == Mirror(b.columns, column_i0)
             in_bounds == /\ 0 <= mirrored_row /\ mirrored_row < b.rows
                          /\ 0 <= mirrored_column /\ mirrored_column < b.columns
             found == in_bounds
                      /\ removed.grid[mirrored_row][mirrored_column] # EMPTY
         IN IF ~found
            THEN [ok |-> TRUE, board |-> removed, symbol_to_teleport |-> NONE]
            ELSE LET symbol_to_teleport ==
                         removed.grid[mirrored_row][mirrored_column]
                     taken == TakeMirrored(removed, mirrored_row,
                                           mirrored_column)
                     row == ScanUp(taken, column_i0, EMPTY, b.rows - 1)
                 IN [ok |-> TRUE,
                     board |-> IF row = -1 THEN taken
                               ELSE SetCell(taken, row, column_i0,
                                            symbol_to_teleport),
                     symbol_to_teleport |-> symbol_to_teleport]

\* piece.insert(self.board, int(column)): Player.add_piece makes a BombPiece
\* for "B", a TeleportPiece for "T" and a plain Piece for anything else.
Insert(sym, b, column) ==
    IF sym = BOMB THEN GravityDecorator(BombInsertRaw(b, column))
    ELSE IF sym = TELEPORT THEN GravityDecorator(TeleportInsertRaw(b, column))
    ELSE PieceInsert(sym, b, column)

\* The board as the undecorated insert of the piece leaves it, before the
\* wrapper lets the pieces fall.
BeforeGravity(sym, b, column) ==
    IF sym = BOMB THEN BombInsertRaw(b, column).board
    ELSE IF sym = TELEPORT THEN TeleportInsertRaw(b, column).board
    ELSE PieceInsert(sym, b, column).board

----------------------------------------------------------------------------
\* One of the counting while loops of Game.begin: consecutive cells equal to
\* sym from (row, col) onwards in direction (dr, dc).  As in the code only the
\* bound lying in the direction of travel is tested, and the row index is
\* used the way a Python list takes it.
RECURSIVE Run(_, _, _, _, _, _)
Run(b, row, col, dr, dc, sym) ==
    IF /\ (dr < 0 => row >= 0)
       /\ (dr > 0 => row < b.rows)
       /\ (dc < 0 => col >= 0)
       /\ (dc > 0 => col < b.columns)
       /\ b.grid[PyIndex(row, b.rows)][col] = sym
    THEN 1 + Run(b, row + dr, col + dc, dr, dc, sym)
    ELSE 0

\* CurrentPlayerWins without the count in the "/" direction.
CurrentPlayerWinsNoSlash(b, inserted_row, column_i0, sym) ==
    LET counter_h == 1 + Run(b, inserted_row, column_i0 - 1, 0, -1, sym)
                       + Run(b, inserted_row, column_i0 + 1, 0, 1, sym)
        counter_d_backslash ==
            1 + Run(b, inserted_row - 1, column_i0 - 1, -1, -1, sym)
              + Run(b, inserted_row + 1, column_i0 + 1, 1, 1, sym)
        counter_v == 1 + Run(b, inserted_row - 1, column_i0, -1, 0, sym)
                       + Run(b, inserted_row + 1, column_i0, 1, 0, sym)
    IN \/ counter_h >= 4
       \/ counter_d_backslash >= 4
       \/ counter_v >= 4

\* The win conditions of the mover in Game.begin, anchored at
\* (inserted_row, column_i0) and counting cells equal to piece.symbol.
CurrentPlayerWins(b, inserted_row, column_i0, sym) ==
    LET counter_h == 1 + Run(b, inserted_row, column_i0 - 1, 0, -1, sym)
                       + Run(b, inserted_row, column_i0 + 1, 0, 1, sym)
        counter_d_backslash ==
            1 + Run(b, inserted_row - 1, column_i0 - 1, -1, -1, sym)
              + Run(b, inserted_row + 1, column_i0 + 1, 1, 1, sym)
        counter_d_slash ==
            1 + Run(b, inserted_row - 1, column_i0 + 1, -1, 1, sym)
              + Run(b, inserted_row + 1, column_i0 - 1, 1, -1, sym)
        counter_v == 1 + Run(b, inserted_row - 1, column_i0, -1, 0, sym)
                       + Run(b, inserted_row + 1, column_i0, 1, 0, sym)
    IN \/ counter_h >= 4
       \/ counter_d_backslash >= 4
       \/ counter_d_slash >= 4
       \/ counter_v >= 4

\* One of the "for x in range(1, 4)" loops of the sweep for the other player:
\* 1 plus the number of cells equal to sym met before the first break.
RECURSIVE Ahead(_, _, _, _, _, _, _)
Ahead(b, row, col, dr, dc, sym, x) ==
    IF x >= 4 THEN 0
    ELSE IF /\ row + x * dr < b.rows
            /\ col + x * dc < b.columns
            /\ col + x * dc >= 0
            /\ b.grid[row + x * dr][col + x * dc] = sym
         THEN 1 + Ahead(b, row, col, dr, dc, sym, x + 1)
         ELSE 0

\* The sweep of Game.begin over every cell holding the other player's symbol:
\* a run of four to the right, downwards, down-right or down-left.
OtherPlayerWins(b, sym) ==
    \E row \in 0..(b.rows - 1), col \in 0..(b.columns - 1) :
        /\ b.grid[row][col] = sym
        /\ \/ 1 + Ahead(b, row, col, 0, 1, sym, 1) >= 4
           \/ 1 + Ahead(b, row, col, 1, 0, sym, 1) >= 4
           \/ 1 + Ahead(b, row, col, 1, 1, sym, 1) >= 4
           \/ 1 + Ahead(b, row, col, 1, -1, sym, 1) >= 4

\* BoardIsFull looking at the last row only.
BoardIsFullLastRow(b) ==
    \A col \in 0..(b.columns - 1) : b.grid[b.rows - 1][col] # EMPTY

\* board_is_full of Game.begin: no blank cell.
BoardIsFull(b) ==
    \A row \in 0..(b.rows - 1), col \in 0..(b.columns - 1) :
        b.grid[row][col] # EMPTY

----------------------------------------------------------------------------
\* len(player.pieces)
PieceCount(pieces) ==
    pieces["X"] + pieces["O"] + pieces[BOMB] + pieces[TELEPORT]

\* Player.__init__: no pieces yet.
NoPieces == [s \in Symbols |-> 0]

\* Player.add_piece: quantity more pieces of the symbol.
AddPiece(pieces, sym, quantity) ==
    [pieces EXCEPT ![sym] = @ + quantity]

\* The distribution of pieces at the end of Game.setup.
Allocation(r, c, own, first) ==
    LET total == r * c
        teleport_total == total \div 10
        bomb_total == total \div 20
        quantity == (total \div 2)
                    + (IF first /\ total % 2 # 0 THEN 1 ELSE 0)
    IN AddPiece(AddPiece(AddPiece(NoPieces, own, quantity),
                         TELEPORT, teleport_total),
                BOMB, bomb_total)

\* Game.__init__ followed by Game.setup with the two symbols entered.
Setup(r, c, s1, s2) ==
    [board |-> NewBoard(r, c),
     players |-> (1 :> [symbol |-> s1, pieces |-> Allocation(r, c, s1, TRUE)]
               @@ 2 :> [symbol |-> s2, pieces |-> Allocation(r, c, s2, FALSE)]),
     current_player |-> 1,
     playing |-> TRUE,
     outcome |-> "InProgress",
     winner |-> 0]

\* OtherPlayer with players[0] in both branches.
OtherPlayerAlwaysFirst(p) == 1

\* otherplayer of Game.begin.
OtherPlayer(p) == IF p = 1 THEN 2 ELSE 1

\* Player.choose_piece on a line of two tokens whose second is an integer:
\* the first piece whose symbol is the one chosen leaves the inventory.
Holds(pieces, chosen) == pieces[chosen] > 0
RemovePiece(pieces, chosen) == [pieces EXCEPT ![chosen] = @ - 1]

\* The judgement at the end of an iteration of Game.begin in which the piece
\* went in: who is announced, or that the game goes on with the other player.
Resolve(g, b, current_player_wins, otherplayer_wins) ==
    LET no_more_pieces == /\ PieceCount(g.players[1].pieces) = 0
                          /\ PieceCount(g.players[2].pieces) = 0
    IN IF current_player_wins /\ otherplayer_wins
       THEN [g EXCEPT !.board = b, !.playing = FALSE, !.outcome = "Draw"]
       ELSE IF current_player_wins
       THEN [g EXCEPT !.board = b, !.playing = FALSE, !.outcome = "Win",
                      !.winner = g.current_player]
       ELSE IF otherplayer_wins
       THEN [g EXCEPT !.board = b, !.playing = FALSE, !.outcome = "Win",
                      !.winner = g.current_player]
       ELSE IF BoardIsFull(b) \/ no_more_pieces
       THEN [g EXCEPT !.board = b, !.playing = FALSE, !.outcome = "Draw"]
       ELSE [g EXCEPT !.board = b,
                      !.current_player = OtherPlayer(g.current_player)]

\* An iteration of the loop of Game.begin in which the current player holds
\* the piece chosen: the piece leaves the inventory, goes into the column,
\* and if it went in the wins are looked for and the outcome decided.
Play(g, chosen, column) ==
    LET me == g.current_player
        taken == [g EXCEPT !.players[me].pieces = RemovePiece(@, chosen)]
        column_i0 == column - 1
        insertion == Insert(chosen, g.board, column)
    IN IF ~insertion.ok
       THEN [game |-> taken, insert_success |-> FALSE,
             current_player_wins |-> FALSE, otherplayer_wins |-> FALSE]
       ELSE LET b == insertion.board
                inserted_row == ScanDown(b, column_i0, chosen, 0)
                current_player_wins ==
                    CurrentPlayerWins(b, inserted_row, column_i0, chosen)
                otherplayer_wins ==
                    OtherPlayerWins(b, g.players[OtherPlayer(me)].symbol)
            IN [game |-> Resolve(taken, b, current_player_wins,
                                 otherplayer_wins),
                insert_success |-> TRUE,
                current_player_wins |-> current_player_wins,
                otherplayer_wins |-> otherplayer_wins]

\* Skip announcing a draw instead of passing the turn.
SkipEndsGame(g) == [g EXCEPT !.playing = FALSE, !.outcome = "Draw"]

\* Game.begin, lines 304-309: the current player has no piece left and the
\* other player becomes the current one.
Skip(g) == [g EXCEPT !.current_player = OtherPlayer(g.current_player)]

\* The iterations of the loop of Game.begin that read the lines of script,
\* each line a symbol and a column: the game after the last of them.
RECURSIVE Replay(_, _)
Replay(g, script) ==
    IF script = <<>> \/ ~g.playing THEN g
    ELSE IF PieceCount(g.players[g.current_player].pieces) = 0
    THEN Replay(Skip(g), script)
    ELSE LET line == Head(script) IN
         IF Holds(g.players[g.current_player].pieces, line[1])
         THEN Replay(Play(g, line[1], line[2]).game, Tail(script))
         ELSE Replay(g, Tail(script))

\* The openings the games are explored from: the board dimensions given on
\* the command line, the symbols of the two players, and the lines the
\* players typed so far (none for a game that has just been set up).
Openings ==
    << [rows |-> 4, columns |-> 5, symbols |-> <<"X", "O">>, script |-> <<>>],
       [rows |-> 1, columns |-> 2, symbols |-> <<"X", "O">>, script |-> <<>>],
       [rows |-> 3, columns |-> 5, symbols |-> <<"X", "O">>, script |-> <<>>],
       \* X holds three in column 1 and the bottom of column 5, column 2 is
       \* empty, O is to move
       [rows |-> 4, columns |-> 5, symbols |-> <<"X", "O">>,
        script |-> << <<"X", 1>>, <<"O", 3>>, <<"X", 1>>, <<"O", 3>>,
                      <<"X", 1>>, <<"O", 4>>, <<"X", 5>> >>],
       \* X holds three in column 1 and the bottom of column 5, O three in
       \* column 2 and the bottom of column 4, X is to move
       [rows |-> 4, columns |-> 5, symbols |-> <<"X", "O">>,
        script |-> << <<"X", 1>>, <<"O", 2>>, <<"X", 1>>, <<"O", 2>>,
                      <<"X", 1>>, <<"O", 2>>, <<"X", 5>>, <<"O", 4>> >>],
       \* columns 2, 3 and 4 hold three, three and two pieces of both
       \* players, X is to move
       [rows |-> 4, columns |-> 5, symbols |-> <<"X", "O">>,
        script |-> << <<"X", 2>>, <<"O", 3>>, <<"X", 3>>, <<"O", 2>>,
                      <<"X", 4>>, <<"O", 4>>, <<"X", 3>>, <<"O", 2>> >>],
       \* column 1 lacks one piece of being full and column 5 holds one
       \* piece, on a board of odd height and width; O is to move
       [rows |-> 5, columns |-> 5, symbols |-> <<"X", "O">>,
        script |-> << <<"X", 1>>, <<"O", 1>>, <<"X", 1>>, <<"O", 1>>,
                      <<"X", 5>> >>],
       \* player two has taken the symbol "B"
       [rows |-> 4, columns |-> 5, symbols |-> <<"X", "B">>, script |-> <<>>],
       \* two cells of the top row are left on a 2x5 board without a run,
       \* X is to move and both players hold a teleport piece
       [rows |-> 2, columns |-> 5, symbols |-> <<"X", "O">>,
        script |-> << <<"X", 1>>, <<"O", 2>>, <<"X", 3>>, <<"O", 4>>,
                      <<"X", 5>>, <<"O", 1>>, <<"X", 2>>, <<"O", 3>> >>],
       \* X holds columns 1 to 3 of a 1x7 board and its last piece, O is to
       \* move with its last piece
       [rows |-> 1, columns |-> 7, symbols |-> <<"X", "O">>,
        script |-> << <<"X", 1>>, <<"O", 5>>, <<"X", 2>>, <<"O", 6>>,
                      <<"X", 3>> >>] >>

\* The game after Game.setup and the lines of the opening.
Opened(o) ==
    Replay(Setup(o.rows, o.columns, o.symbols[1], o.symbols[2]), o.script)

----------------------------------------------------------------------------
\* The game as the variables hold it.
Game ==
    [board |-> board, players |-> players, current_player |-> current_player,
     playing |-> playing, outcome |-> outcome, winner |-> winner]

\* The variables take the fields of g in the next state.
Becomes(g) ==
    /\ board' = g.board
    /\ players' = g.players
    /\ current_player' = g.current_player
    /\ playing' = g.playing
    /\ outcome' = g.outcome
    /\ winner' = g.winner

\* The record kept of an iteration of the loop: what happened, to whom, the
\* line typed, the two flags of the win conditions, and for a piece that went
\* in: the row it landed in, whether the wrapper made a piece fall, and the
\* symbol a teleport piece moved.
Event(kind, mover, chosen, column, mine, theirs) ==
    [event |-> kind, mover |-> mover, chosen |-> chosen, column |-> column,
     current_player_wins |-> mine, otherplayer_wins |-> theirs,
     row |-> -1, fell |-> FALSE, teleported |-> NONE]

PlacedEvent(mover, chosen, column, mine, theirs, b) ==
    [Event("placed", mover, chosen, column, mine, theirs) EXCEPT
        !.row = ScanUp(b, column - 1, EMPTY, b.rows - 1),
        !.fell = (BeforeGravity(chosen, b, column)
                  # Insert(chosen, b, column).board),
        !.teleported = IF chosen = TELEPORT
                       THEN TeleportInsertRaw(b, column).symbol_to_teleport
                       ELSE NONE]

\* Control is outside the loops of gravity_decorator.wrapper: the wrapper has
\* returned, or has not been entered.
Returned == [running |-> FALSE, k |-> 0, moved |-> FALSE]

\* The columns a player may type: every column of the board, and numbers on
\* either side of them.
ColumnInputs == (-1)..(board.columns + 1)

\* Game.__init__ and Game.setup have run and the lines of an opening have
\* been played.
Init ==
    \E k \in 1..Len(Openings) :
        /\ board = Opened(Openings[k]).board
        /\ players = Opened(Openings[k]).players
        /\ current_player = Opened(Openings[k]).current_player
        /\ playing = Opened(Openings[k]).playing
        /\ outcome = Opened(Openings[k]).outcome
        /\ winner = Opened(Openings[k]).winner
        /\ last = Event("setup", 0, EMPTY, 0, FALSE, FALSE)
        /\ turns = 0
        /\ wrapper = Returned

\* Game.begin, lines 304-309: the current player has no piece left and the
\* turn passes to the other player.
OutOfPieces ==
    /\ playing
    /\ PieceCount(players[current_player].pieces) = 0
    /\ Becomes(Skip(Game))
    /\ last' = Event("out_of_pieces", current_player, EMPTY, 0, FALSE, FALSE)
    /\ UNCHANGED <<turns, wrapper>>

\* Game.begin, lines 312-314: Player.choose_piece returns None, because the
\* line typed is not two tokens, or its second token is not an integer, or
\* the player holds no piece of the symbol chosen.
NoSelection ==
    /\ playing
    /\ PieceCount(players[current_player].pieces) > 0
    /\ \E wellformed \in BOOLEAN, chosen \in Symbols :
          /\ wellformed => ~Holds(players[current_player].pieces, chosen)
          /\ last' = Event("no_selection", current_player,
                           IF wellformed THEN chosen ELSE EMPTY, 0,
                           FALSE, FALSE)
    /\ UNCHANGED <<board, players, current_player, playing, outcome, winner,
                   turns, wrapper>>

\* Game.begin, lines 312-322: a piece is chosen and piece.insert returns
\* False.
InsertFailed ==
    /\ playing
    /\ PieceCount(players[current_player].pieces) > 0
    /\ turns < MaxTurns
    /\ \E chosen \in Symbols, column \in ColumnInputs :
          /\ Holds(players[current_player].pieces, chosen)
          /\ LET turn == Play(Game, chosen, column) IN
             /\ ~turn.insert_success
             /\ Becomes(turn.game)
             /\ last' = Event("insert_failed", current_player, chosen, column,
                              FALSE, FALSE)
    /\ turns' = turns + 1
    /\ UNCHANGED wrapper

\* Game.begin, lines 312-548: a piece is chosen, piece.insert returns True,
\* and the outcome of the turn is decided.
Placed ==
    /\ playing
    /\ PieceCount(players[current_player].pieces) > 0
    /\ turns < MaxTurns
    /\ \E chosen \in Symbols, column \in ColumnInputs :
          /\ Holds(players[current_player].pieces, chosen)
          /\ LET turn == Play(Game, chosen, column) IN
             /\ turn.insert_success
             /\ Becomes(turn.game)
             /\ last' = PlacedEvent(current_player, chosen, column,
                                    turn.current_player_wins,
                                    turn.otherplayer_wins, board)
    /\ turns' = turns + 1
    /\ UNCHANGED wrapper

Next ==
    \/ OutOfPieces
    \/ NoSelection
    \/ InsertFailed
    \/ Placed

Spec == Init /\ [][Next]_vars

\* The loop of Game.begin goes round without waiting for anybody when the
\* current player has no piece: that step is taken whenever it stays possible.
FairSpec == Spec /\ WF_vars(OutOfPieces)

----------------------------------------------------------------------------
\* The wrapper and the two win detections taken as functions of the grid
\* alone.  They are applied to boards of a few shapes holding at most
\* MaxPieces pieces of two symbols anywhere, settled or not.

\* Board(rows, columns): the shapes of the boards the functions are given.
GridShapes == {<<4, 4>>, <<5, 2>>, <<2, 5>>}

\* The shapes of the boards the wrapper is followed on loop by loop.
WrapperShapes == {<<4, 2>>, <<3, 3>>}

\* The symbols found on those boards.
GridSymbols == {"X", "O"}

\* The cells of a board of r rows and c columns.
Cells(r, c) == (0..(r - 1)) \X (0..(c - 1))

\* The board of r rows and c columns holding fill[cell] at every cell of the
\* domain of fill and a blank elsewhere.
GridOf(r, c, fill) ==
    [rows |-> r, columns |-> c,
     grid |-> [row \in 0..(r - 1) |-> [col \in 0..(c - 1) |->
                  IF <<row, col>> \in DOMAIN fill
                  THEN fill[<<row, col>>] ELSE EMPTY]]]

\* A board of one of the shapes is handed over; no game is going on.
GridGiven(shapes) ==
    /\ \E shape \in shapes :
          \E cells \in {c \in SUBSET Cells(shape[1], shape[2]) :
                           Cardinality(c) <= MaxPieces} :
             \E fill \in [cells -> GridSymbols] :
                board = GridOf(shape[1], shape[2], fill)
    /\ players = <<>>
    /\ current_player = 0
    /\ playing = FALSE
    /\ outcome = "InProgress"
    /\ winner = 0
    /\ last = [event |-> "grid"]
    /\ turns = 0
    /\ wrapper = Returned

GridInit == GridGiven(GridShapes)

\* Normalize with a single pass of the loops.
NormalizeOnePass ==
    /\ last.event \in {"grid", "normalized"}
    /\ last.event = "normalized" => last.count < 2
    /\ board' = GravityOnePass(board)
    /\ last' = [event |-> "normalized",
                count |-> IF last.event = "grid" THEN 1 ELSE last.count + 1,
                original |-> IF last.event = "grid" THEN board
                             ELSE last.original,
                before |-> board]
    /\ UNCHANGED <<players, current_player, playing, outcome, winner, turns,
                   wrapper>>

\* gravity_decorator.wrapper, lines 12-25, runs on the board as it is; it is
\* run a first and a second time.  The record keeps the board given at the
\* start and the board this run began with.
Normalize ==
    /\ last.event \in {"grid", "normalized"}
    /\ last.event = "normalized" => last.count < 2
    /\ board' = Gravity(board)
    /\ last' = [event |-> "normalized",
                count |-> IF last.event = "grid" THEN 1 ELSE last.count + 1,
                original |-> IF last.event = "grid" THEN board
                             ELSE last.original,
                before |-> board]
    /\ UNCHANGED <<players, current_player, playing, outcome, winner, turns,
                   wrapper>>

\* The two win detections of Game.begin run on the board given, for one
\* symbol: the sweep of lines 436-504, and the anchored counts of lines
\* 334-434 at every cell holding the symbol.
Detect ==
    /\ last.event = "grid"
    /\ \E sym \in GridSymbols :
          last' = [event |-> "detected", symbol |-> sym,
                   otherplayer_wins |-> OtherPlayerWins(board, sym),
                   current_player_wins |->
                       \E cell \in Cells(board.rows, board.columns) :
                          /\ board.grid[cell[1]][cell[2]] = sym
                          /\ CurrentPlayerWins(board, cell[1], cell[2], sym)]
    /\ UNCHANGED <<board, players, current_player, playing, outcome, winner,
                   turns, wrapper>>

GridNext ==
    \/ Normalize
    \/ Detect

GridSpec == GridInit /\ [][GridNext]_vars

----------------------------------------------------------------------------
\* gravity_decorator.wrapper followed cell by cell on a board handed over:
\* wrapper.k counts the cells the two for loops have visited in the sweep
\* under way and wrapper.moved is the flag of the while loop.

\* Lines 22-24 with the cell left behind not blanked.
FallLeavesCopy(b, row, col) ==
    SetCell(b, row + 1, col, b.grid[row][col])

\* Lines 22-24: the piece at (row, col) goes one row down and leaves a blank.
Fall(b, row, col) ==
    SetCell(SetCell(b, row + 1, col, b.grid[row][col]), row, col, EMPTY)

\* The number of cells one sweep visits, and the k-th of them: column by
\* column, in a column from row rows-2 up to row 0.
SweepLength(b) == b.columns * (b.rows - 1)
VisitedColumn(b, k) == k \div (b.rows - 1)
VisitedRow(b, k) == (b.rows - 2) - (k % (b.rows - 1))

\* The test of lines 18-21 without its second half: the cell beneath is not
\* looked at.
FloatsOverAnything(b, k) ==
    b.grid[VisitedRow(b, k)][VisitedColumn(b, k)] # EMPTY

\* The test of lines 18-21 at the cell the loops are at.
Floats(b, k) ==
    /\ b.grid[VisitedRow(b, k)][VisitedColumn(b, k)] # EMPTY
    /\ b.grid[VisitedRow(b, k) + 1][VisitedColumn(b, k)] = EMPTY

WrapperInit == GridGiven(WrapperShapes)

\* Lines 12-14: the while loop is entered and a first sweep starts.  The
\* record counts the drops made since then and in the sweep under way.
Enter ==
    /\ last.event = "grid"
    /\ ~wrapper.running
    /\ wrapper' = [running |-> TRUE, k |-> 0, moved |-> FALSE]
    /\ last' = [event |-> "entered", drops |-> 0, sweep_drops |-> 0,
                sweeps |-> 0, original |-> board]
    /\ UNCHANGED <<board, players, current_player, playing, outcome, winner,
                   turns>>

\* Lines 18-25: the cell visited holds a piece over a blank; it drops.
Drop ==
    /\ wrapper.running
    /\ wrapper.k < SweepLength(board)
    /\ Floats(board, wrapper.k)
    /\ board' = Fall(board, VisitedRow(board, wrapper.k),
                     VisitedColumn(board, wrapper.k))
    /\ wrapper' = [wrapper EXCEPT !.k = @ + 1, !.moved = TRUE]
    /\ last' = [last EXCEPT !.event = "dropped", !.drops = @ + 1,
                            !.sweep_drops = @ + 1]
    /\ UNCHANGED <<players, current_player, playing, outcome, winner, turns>>

\* Lines 18-21: the test fails at the cell visited; the loops go on.
LeaveCell ==
    /\ wrapper.running
    /\ wrapper.k < SweepLength(board)
    /\ ~Floats(board, wrapper.k)
    /\ wrapper' = [wrapper EXCEPT !.k = @ + 1]
    /\ last' = [last EXCEPT !.event = "left"]
    /\ UNCHANGED <<board, players, current_player, playing, outcome, winner,
                   turns>>

\* Lines 13-14: a sweep is over and moved is True; another sweep starts.
SweepAgain ==
    /\ wrapper.running
    /\ wrapper.k >= SweepLength(board)
    /\ wrapper.moved
    /\ wrapper' = [running |-> TRUE, k |-> 0, moved |-> FALSE]
    /\ last' = [last EXCEPT !.event = "sweep_again", !.sweep_drops = 0,
                            !.sweeps = @ + 1]
    /\ UNCHANGED <<board, players, current_player, playing, outcome, winner,
                   turns>>

\* Lines 13 and 26: a sweep is over and moved is False; the wrapper returns.
Return ==
    /\ wrapper.running
    /\ wrapper.k >= SweepLength(board)
    /\ ~wrapper.moved
    /\ wrapper' = Returned
    /\ last' = [last EXCEPT !.event = "returned", !.sweeps = @ + 1]
    /\ UNCHANGED <<board, players, current_player, playing, outcome, winner,
                   turns>>

WrapperNext ==
    \/ Enter
    \/ Drop
    \/ LeaveCell
    \/ SweepAgain
    \/ Return

WrapperSpec == WrapperInit /\ [][WrapperNext]_vars

\* The wrapper is straight-line code that waits for nothing: its next step
\* is taken.
FairWrapperSpec == WrapperSpec /\ WF_vars(WrapperNext)

----------------------------------------------------------------------------
\* Notions the properties are stated with.

InBounds(b, row, col) ==
    /\ 0 <= row /\ row < b.rows
    /\ 0 <= col /\ col < b.columns

\* The four axes: horizontal, vertical, "\" and "/".
Axes == {<<0, 1>>, <<1, 0>>, <<1, 1>>, <<1, -1>>}

\* Four cells in a line from (row, col) along axis d, all holding sym.
LineOfFour(b, row, col, d, sym) ==
    \A i \in 0..3 :
        /\ InBounds(b, row + i * d[1], col + i * d[2])
        /\ b.grid[row + i * d[1]][col + i * d[2]] = sym

\* Some run of at least four cells of sym on the board.
HasRun(b, sym) ==
    \E row \in 0..(b.rows - 1), col \in 0..(b.columns - 1), d \in Axes :
        LineOfFour(b, row, col, d, sym)

\* The cell (row, col) lies on a run of at least four cells of sym.
OnRun(b, row, col, sym) ==
    \E d \in Axes, k \in 0..3 :
        LineOfFour(b, row - k * d[1], col - k * d[2], d, sym)

\* Number of occupied cells.
OccupiedCount(b) ==
    Cardinality({cell \in (0..(b.rows - 1)) \X (0..(b.columns - 1)) :
                    b.grid[cell[1]][cell[2]] # EMPTY})

\* No occupied cell has an empty cell directly beneath it.
Settled(b) ==
    \A row \in 0..(b.rows - 2), col \in 0..(b.columns - 1) :
        b.grid[row][col] # EMPTY => b.grid[row + 1][col] # EMPTY

\* The lowest empty row of a column (0-based) of a settled board, or -1.
LowestEmptyRow(b, col) ==
    IF \A row \in 0..(b.rows - 1) : b.grid[row][col] # EMPTY THEN -1
    ELSE CHOOSE row \in 0..(b.rows - 1) :
             /\ b.grid[row][col] = EMPTY
             /\ \A below \in (row + 1)..(b.rows - 1) :
                    b.grid[below][col] # EMPTY

BothInventoriesEmpty ==
    /\ PieceCount(players[1].pieces) = 0
    /\ PieceCount(players[2].pieces) = 0

----------------------------------------------------------------------------
\* C1: an invalid move (a malformed line, a symbol the player does not hold,
\* a column out of range or full) leaves the board, both inventories and the
\* current player as they were, and the same player is asked again.
C1_InvalidMoveChangesNothing ==
    [][last'.event \in {"no_selection", "insert_failed"} =>
          /\ board' = board
          /\ players' = players
          /\ current_player' = current_player
          /\ playing']_vars

\* C2: after a placement for which only the sweep for the other player found
\* a run, the winner announced is the other player, not the mover.
C2_OpponentRunOpponentWins ==
    (/\ last.event = "placed"
     /\ ~last.current_player_wins
     /\ last.otherplayer_wins)
    => /\ outcome = "Win"
       /\ winner = OtherPlayer(last.mover)

\* C3: after a placement of any piece the mover's win flag is set exactly
\* when the cell the piece landed in lies, on the board the placement left,
\* on a run of four of the mover's player symbol.
C3_MoverWonIffLandingOnRun ==
    [][last'.event = "placed" =>
          (last'.current_player_wins <=>
              OnRun(board', last'.row, last'.column - 1,
                    players[last'.mover].symbol))]_vars

\* C4: a placement after which the board holds a run of four of the mover's
\* symbol and a run of four of the other player's symbol ends in a draw.
C4_BothRunsDraw ==
    (/\ last.event = "placed"
     /\ HasRun(board, players[last.mover].symbol)
     /\ HasRun(board, players[OtherPlayer(last.mover)].symbol))
    => outcome = "Draw"

\* C5: once both inventories are empty while the game is in progress, the
\* game comes to a draw.
C5_ExhaustionLeadsToDraw ==
    (playing /\ BothInventoriesEmpty) ~> (outcome = "Draw")

\* C6: whenever control is back in the turn loop, no occupied cell has an
\* empty cell directly beneath it.
C6_NoFloatingPiece == Settled(board)

\* A bomb or a teleport piece went in and the wrapper made a piece fall.
C6_Witness ==
    /\ last.event = "placed"
    /\ last.chosen \in {BOMB, TELEPORT}
    /\ last.fell

\* The coordinates a teleport piece landing at (row, col) is mirrored to.
MirrorOf(b, row, col) == <<(b.rows - 1) - row, (b.columns - 1) - col>>

\* C7: a bomb landing at (r, c) leaves, before the pieces fall, every cell
\* within distance 1 of (r, c) in both coordinates empty and every other
\* cell as it was before the move.
C7_AreaClearExact ==
    [][(last'.event = "placed" /\ last'.chosen = BOMB) =>
          LET c == last'.column - 1
              r == LowestEmptyRow(board, c)
              cleared == BeforeGravity(BOMB, board, last'.column)
          IN \A row \in 0..(board.rows - 1), col \in 0..(board.columns - 1) :
                cleared.grid[row][col] =
                    IF /\ r - 1 <= row /\ row <= r + 1
                       /\ c - 1 <= col /\ col <= c + 1
                    THEN EMPTY
                    ELSE board.grid[row][col]]_vars

\* A bomb went in above the bottom row: the piece it landed on was cleared.
C7_Witness ==
    /\ last.event = "placed"
    /\ last.chosen = BOMB
    /\ last.row < board.rows - 1
    /\ OccupiedCount(board) > 0

\* C8: a teleport piece that went in leaves as many occupied cells as there
\* were, takes exactly one piece from the mover's inventory and leaves the
\* other player's inventory alone.
C8_SwapPreservesCount ==
    [][(last'.event = "placed" /\ last'.chosen = TELEPORT) =>
          /\ OccupiedCount(board') = OccupiedCount(board)
          /\ PieceCount(players'[last'.mover].pieces)
                = PieceCount(players[last'.mover].pieces) - 1
          /\ players'[OtherPlayer(last'.mover)]
                = players[OtherPlayer(last'.mover)]]_vars

\* A teleport piece went in and moved a piece.
C8_Witness ==
    /\ last.event = "placed"
    /\ last.chosen = TELEPORT
    /\ last.teleported # NONE
    /\ OccupiedCount(board) >= 2

\* C9 as stated: a teleport piece landing at (r, c) whose mirrored cell is
\* occupied leaves the symbol of that cell in column c, at the lowest empty
\* row of the column, and leaves the mirrored cell empty.
C9_MirrorLeftEmpty ==
    [][(last'.event = "placed" /\ last'.chosen = TELEPORT) =>
          LET c == last'.column - 1
              r == LowestEmptyRow(board, c)
              m == MirrorOf(board, r, c)
          IN (/\ InBounds(board, m[1], m[2])
              /\ board.grid[m[1]][m[2]] # EMPTY
              /\ m # <<r, c>>)
             => /\ board'.grid[r][c] = board.grid[m[1]][m[2]]
                /\ board'.grid[m[1]][m[2]] = EMPTY]_vars

\* C9 amended: the symbol of the mirrored cell goes to column c, at the
\* lowest row of the column that is empty once the mirrored cell is emptied
\* (row r when the mirrored cell is in another column, the mirrored row itself
\* when it is in column c, which leaves the board as it was); and when the
\* placement returns the mirrored cell of another column holds what stood
\* directly above it before the move, so it is empty only if nothing did.
C9_SwapRelocation ==
    [][(last'.event = "placed" /\ last'.chosen = TELEPORT) =>
          LET c == last'.column - 1
              r == LowestEmptyRow(board, c)
              m == MirrorOf(board, r, c)
              above == IF m[1] = 0 THEN EMPTY
                       ELSE board.grid[m[1] - 1][m[2]]
          IN (/\ InBounds(board, m[1], m[2])
              /\ board.grid[m[1]][m[2]] # EMPTY
              /\ m # <<r, c>>)
             => /\ m[2] # c =>
                    /\ board'.grid[r][c] = board.grid[m[1]][m[2]]
                    /\ board'.grid[m[1]][m[2]] = above
                /\ m[2] = c =>
                    /\ board'.grid[m[1]][c] = board.grid[m[1]][m[2]]
                    /\ board' = board]_vars

\* A teleport piece moved a piece out from under another one, which fell
\* into the mirrored cell.
C9_Witness ==
    /\ last.event = "placed"
    /\ last.chosen = TELEPORT
    /\ last.teleported # NONE
    /\ last.fell

\* C10: a teleport piece landing at (r, c) whose mirrored cell is empty, out
\* of bounds or (r, c) itself leaves every cell of the board as it was, and
\* the placement counts as successful: a teleport piece is refused only for a
\* column out of range or full.
C10_SwapWithoutTarget ==
    [][last'.chosen = TELEPORT =>
          LET c == last'.column - 1
              r == IF c \in 0..(board.columns - 1)
                   THEN LowestEmptyRow(board, c) ELSE -1
              m == MirrorOf(board, r, c)
          IN /\ (last'.event = "placed" /\
                 (\/ ~InBounds(board, m[1], m[2])
                  \/ m = <<r, c>>
                  \/ board.grid[m[1]][m[2]] = EMPTY))
                => board' = board
             /\ last'.event = "insert_failed" => r = -1]_vars

\* A teleport piece went in and moved nothing, on a board with pieces.
C10_Witness ==
    /\ last.event = "placed"
    /\ last.chosen = TELEPORT
    /\ last.teleported = NONE
    /\ OccupiedCount(board) > 0

\* C11: a piece of any kind is refused exactly when the column typed is
\* outside 1..columns or the column has no empty cell, and a refused piece
\* leaves every cell of the board as it was.
C11_RejectedIffBadOrFullColumn ==
    [][last'.event \in {"insert_failed", "placed"} =>
          LET column == last'.column
              bad == \/ column < 1
                     \/ column > board.columns
                     \/ \A row \in 0..(board.rows - 1) :
                            board.grid[row][column - 1] # EMPTY
          IN /\ (last'.event = "insert_failed") <=> bad
             /\ (last'.event = "insert_failed") => board' = board]_vars

\* A piece was refused by a column of the board that is full.
C11_Witness ==
    /\ last.event = "insert_failed"
    /\ last.column \in 1..board.columns
    /\ \A row \in 0..(board.rows - 1) :
           board.grid[row][last.column - 1] # EMPTY

\* The game has just been set up: nothing was typed yet.
JustSetUp ==
    /\ last.event = "setup"
    /\ turns = 0
    /\ OccupiedCount(board) = 0

\* C12: after setup each player holds total \div 10 teleport pieces,
\* total \div 20 bomb pieces and total \div 2 pieces of their own symbol,
\* the first player one more when total is odd.
C12_Allocation ==
    JustSetUp =>
        LET total == board.rows * board.columns IN
        \A p \in {1, 2} :
            /\ players[p].pieces[TELEPORT] = total \div 10
            /\ players[p].pieces[BOMB] = total \div 20
            /\ players[p].pieces[players[p].symbol]
                  = (total \div 2)
                    + (IF p = 1 /\ total % 2 = 1 THEN 1 ELSE 0)

\* C13: a standard piece that went in and whose cell lies on a run of four
\* of the mover's symbol, the other player having no run, makes the mover the
\* winner; and when its cell lies on no such run the mover is not announced
\* as the winner of that turn.
C13_StandardWin ==
    [][(last'.event = "placed" /\ last'.chosen \notin {BOMB, TELEPORT}) =>
          LET me == last'.mover
              mine == OnRun(board', LowestEmptyRow(board, last'.column - 1),
                            last'.column - 1, players[me].symbol)
              theirs == HasRun(board', players[OtherPlayer(me)].symbol)
          IN /\ (mine /\ ~theirs) => (outcome' = "Win" /\ winner' = me)
             /\ ~mine => ~(outcome' = "Win" /\ winner' = me)]_vars

\* C17: after a placement that set neither win flag the game is drawn
\* exactly when the board has no empty cell or both inventories are empty;
\* and a placement that set one win flag ends in a win even when it filled the
\* board or used the last piece.
C17_DrawByExhaustion ==
    last.event = "placed" =>
        LET exhausted ==
                \/ OccupiedCount(board) = board.rows * board.columns
                \/ BothInventoriesEmpty
        IN /\ (~last.current_player_wins /\ ~last.otherplayer_wins)
                => /\ (outcome = "Draw") <=> exhausted
                   /\ (outcome = "InProgress") <=> ~exhausted
           /\ (last.current_player_wins # last.otherplayer_wins)
                => outcome = "Win"

\* A placement without a run filled the board while pieces were still held,
\* and the game was drawn.
C17_Witness ==
    /\ last.event = "placed"
    /\ ~last.current_player_wins /\ ~last.otherplayer_wins
    /\ OccupiedCount(board) = board.rows * board.columns
    /\ ~BothInventoriesEmpty
    /\ outcome = "Draw"

\* C18: a placement that does not end the game passes the turn to the other
\* player; the current player changes only by such a placement or by the skip
\* of a player without pieces; so the player who just placed a piece is not
\* the one who makes the next move.
C18_TurnRotation ==
    [][/\ (last'.event = "placed" /\ playing')
             => current_player' # current_player
       /\ current_player' # current_player
             => last'.event \in {"placed", "out_of_pieces"}
       /\ last'.event = "out_of_pieces"
             => PieceCount(players[current_player].pieces) = 0
       /\ last'.event \in {"placed", "insert_failed", "no_selection"}
             => /\ last'.mover = current_player
                /\ PieceCount(players[current_player].pieces) > 0
       /\ (last.event = "placed"
           /\ last'.event \in {"placed", "insert_failed", "no_selection"})
             => last'.mover # last.mover]_vars

\* Two placements in a row, the second by the player the turn had passed to,
\* and the game goes on.
C18_Witness ==
    /\ last.event = "placed"
    /\ turns >= 2
    /\ playing
    /\ current_player # last.mover

\* C19: when the current player holds no piece the loop does nothing but make
\* the other player the current one: board and inventories stay as they are
\* and the game stays in progress with no outcome.
C19_EmptyInventorySkip ==
    [][(playing /\ PieceCount(players[current_player].pieces) = 0) =>
          /\ last'.event = "out_of_pieces"
          /\ current_player' # current_player
          /\ board' = board
          /\ players' = players
          /\ playing'
          /\ outcome' = "InProgress"
          /\ winner' = winner]_vars

\* A player without pieces was skipped and the player who holds some is to
\* move.
C19_Witness ==
    /\ last.event = "out_of_pieces"
    /\ playing
    /\ PieceCount(players[current_player].pieces) > 0

----------------------------------------------------------------------------
\* Properties of the wrapper and of the win detections on boards of any
\* content.

\* Column col of b holds two pieces that float apart from each other: going
\* down the column a piece, a blank, a piece, a blank.
DisconnectedFloaters(b, col) ==
    \E r1, r2, r3, r4 \in 0..(b.rows - 1) :
        /\ r1 < r2 /\ r2 < r3 /\ r3 < r4
        /\ b.grid[r1][col] # EMPTY /\ b.grid[r2][col] = EMPTY
        /\ b.grid[r3][col] # EMPTY /\ b.grid[r4][col] = EMPTY

\* Column col of b holds a piece with a blank somewhere beneath it.
HasGap(b, col) ==
    \E r1, r2 \in 0..(b.rows - 1) :
        r1 < r2 /\ b.grid[r1][col] # EMPTY /\ b.grid[r2][col] = EMPTY

\* C14: for every board and symbol, the sweep over the board (runs of four
\* to the right, down, down-right and down-left of a cell of the symbol)
\* finds a win if and only if the anchored counts find one at some cell
\* holding the symbol.
C14_DetectorsAgree ==
    last.event = "detected" =>
        (last.otherplayer_wins <=> last.current_player_wins)

\* Both detections found the four pieces of one symbol lying on the "/"
\* diagonal of a board of four rows and four columns.
C14_Witness ==
    /\ last.event = "detected"
    /\ last.otherplayer_wins /\ last.current_player_wins
    /\ board.rows = 4 /\ board.columns = 4
    /\ \A i \in 0..3 : board.grid[i][3 - i] = last.symbol

\* C15: the wrapper run a second time changes no cell of the board its first
\* run left.
C15_NormalizeIdempotent ==
    (last.event = "normalized" /\ last.count = 2) => board = last.before

\* The wrapper ran twice on a board that had two pieces floating apart in one
\* column, and its first run moved them.
C15_Witness ==
    /\ last.event = "normalized" /\ last.count = 2
    /\ last.original # last.before
    /\ \E col \in 0..(board.columns - 1) :
          DisconnectedFloaters(last.original, col)

\* C20: after the wrapper has run on a board, no occupied cell of any column
\* has an empty cell anywhere beneath it in that column.
C20_NormalizePostcondition ==
    last.event = "normalized" =>
        \A col \in 0..(board.columns - 1) : ~HasGap(board, col)

\* The wrapper ran once on a board that had two pieces floating apart in one
\* column and a gap in another column as well.
C20_Witness ==
    /\ last.event = "normalized" /\ last.count = 1
    /\ \E c1, c2 \in 0..(board.columns - 1) :
          /\ c1 # c2
          /\ DisconnectedFloaters(last.before, c1)
          /\ HasGap(last.before, c2)

\* The height above support of the pieces of b, summed: for every occupied
\* cell, the number of empty cells beneath it in its column, which is the
\* number of rows the piece is above the place it comes to rest in.
HeightAboveSupport(b) ==
    Cardinality({t \in Cells(b.rows, b.columns) \X (0..(b.rows - 1)) :
                    /\ b.grid[t[1][1]][t[1][2]] # EMPTY
                    /\ t[2] > t[1][1]
                    /\ b.grid[t[2]][t[1][2]] = EMPTY})

\* C16: on every board the wrapper returns, after a sweep that made no move,
\* and every drop of a piece by one cell makes the height above support
\* summed over all occupied cells strictly smaller.
C16_NormalizeTerminates ==
    /\ [][last'.event = "dropped" =>
             HeightAboveSupport(board') < HeightAboveSupport(board)]_vars
    /\ (last.event = "entered")
          ~> (last.event = "returned" /\ last.sweep_drops = 0)

\* The wrapper returned after three sweeps or more and three drops or more
\* on a board that had two pieces floating apart in one column.
C16_Witness ==
    /\ last.event = "returned"
    /\ last.sweeps >= 3 /\ last.drops >= 3
    /\ \E col \in 0..(board.columns - 1) :
          DisconnectedFloaters(last.original, col)

\* The symbols of the occupied cells of column col of b from row upwards,
\* the lowest first.
RECURSIVE SymbolsUpFrom(_, _, _)
SymbolsUpFrom(b, col, row) ==
    IF row < 0 THEN <<>>
    ELSE IF b.grid[row][col] = EMPTY THEN SymbolsUpFrom(b, col, row - 1)
    ELSE <<b.grid[row][col]>> \o SymbolsUpFrom(b, col, row - 1)

\* The symbols of the pieces of column col of b, bottom to top.
ColumnSymbols(b, col) == SymbolsUpFrom(b, col, b.rows - 1)

\* C21: when the wrapper has returned, every column holds, bottom to top,
\* the same sequence of symbols as on the board the wrapper was given: no
\* piece was created, destroyed, reordered or moved to another column.
C21_ColumnsKeepTheirPieces ==
    last.event = "returned" =>
        /\ board.rows = last.original.rows
        /\ board.columns = last.original.columns
        /\ \A col \in 0..(board.columns - 1) :
              ColumnSymbols(board, col) = ColumnSymbols(last.original, col)

\* The wrapper returned after making pieces of both symbols fall in one
\* column, where they floated apart, and a piece in another column.
C21_Witness ==
    /\ last.event = "returned"
    /\ \E c1, c2 \in 0..(board.columns - 1) :
          /\ c1 # c2
          /\ DisconnectedFloaters(last.original, c1)
          /\ Len(ColumnSymbols(board, c1)) >= 2
          /\ ColumnSymbols(board, c1)[1] # ColumnSymbols(board, c1)[2]
          /\ HasGap(last.original, c2)

\* C22: whenever the game is in progress at the start of a turn, the board
\* holds no run of four cells of either player's symbol on any axis.
C22_NoUndetectedWin ==
    (playing /\ outcome = "InProgress") =>
        \A p \in {1, 2} : ~HasRun(board, players[p].symbol)

====
